---- MODULE Spec2Model ----
(***************************************************************************)
(* A model of .ai/scripts/deploy_ai.py: the symlink manager                *)
(* (create_symlink), the Gemini configuration generator                    *)
(* (generate_gemini_config) and the orchestration (main), over an explicit *)
(* model of the POSIX filesystem the script acts on.                       *)
(*                                                                         *)
(* A path is a sequence of components below the repository root (ROOT_DIR  *)
(* is the empty sequence).  The filesystem maps every physical path that   *)
(* holds an entry to that entry: a directory, a regular file with its      *)
(* text, or a symbolic link with its stored relative target.  A text is a  *)
(* sequence of tokens; the body of a document is spelled character by      *)
(* character, fixed phrases are one token each.                            *)
(***************************************************************************)
EXTENDS Naturals, Sequences, FiniteSets, TLC

VARIABLES
  fs,            \* the filesystem: physical path -> entry
  rootWritable,  \* whether entries may be added to / removed from ROOT_DIR
  pc,            \* the position of the running program
  run,           \* which run of main() (or call of create_symlink) this is
  snap,          \* the filesystem as the first run (call) left it
  out,           \* the lines printed so far
  todo,          \* the workflow documents the generation loop has yet to visit
  ruleOrder,     \* the order in which the rules directory lists its entries
  call,          \* the entry point under study and its arguments
  fs0,           \* the filesystem before the program started
  written        \* what the current run has written so far: path -> entry

vars == <<fs, rootWritable, pc, run, snap, out, todo, ruleOrder, call, fs0, written>>

(***************************************************************************)
(* Bounds of the model.                                                    *)
(***************************************************************************)
MaxSymlinks == 3    \* symbolic links followed in one path resolution
MaxBody == 3        \* characters in the body of the workflow document
MaxDeviations == 1  \* places where the initial tree departs from its base

(***************************************************************************)
(* Paths (deploy_ai.py:14-27).                                             *)
(***************************************************************************)
ROOT_DIR == << >>
AI_DIR == ROOT_DIR \o <<".ai">>
WORKFLOWS_DIR == AI_DIR \o <<"workflows">>
RULES_DIR == AI_DIR \o <<"rules">>
ANTIGRAVITY_CONFIG == AI_DIR \o <<"config", "antigravity">>
CLAUDE_CONFIG == AI_DIR \o <<"config", "claude">>
GEMINI_CONFIG == AI_DIR \o <<"config", "gemini">>
TARGET_AGENT == ROOT_DIR \o <<".agent">>
TARGET_CLAUDE == ROOT_DIR \o <<".claude">>
TARGET_GEMINI == ROOT_DIR \o <<".gemini">>

(***************************************************************************)
(* Entries and lexical path functions (os.path).                           *)
(***************************************************************************)
Dir == [kind |-> "dir", data |-> << >>]
File(text) == [kind |-> "file", data |-> text]
Link(target) == [kind |-> "link", data |-> target]

Range(s) == {s[i] : i \in DOMAIN s}
dirname(p) == SubSeq(p, 1, Len(p) - 1)
basename(p) == p[Len(p)]
IsPrefix(a, b) == Len(a) <= Len(b) /\ SubSeq(b, 1, Len(a)) = a

RECURSIVE CommonLen(_, _)
CommonLen(a, b) ==
  IF a = << >> \/ b = << >> \/ Head(a) # Head(b) THEN 0
  ELSE 1 + CommonLen(Tail(a), Tail(b))

Ups(n) == [i \in 1..n |-> ".."]

\* os.path.relpath(path, start): purely lexical, on the absolute paths.
relpath(path, start) ==
  LET i == CommonLen(start, path)
      rel == Ups(Len(start) - i) \o SubSeq(path, i + 1, Len(path))
  IN  IF rel = << >> THEN <<".">> ELSE rel

\* The lexical normalisation of `rest` taken from directory `cur`.
RECURSIVE LexJoin(_, _)
LexJoin(cur, rest) ==
  IF rest = << >> THEN cur
  ELSE IF Head(rest) = "." THEN LexJoin(cur, Tail(rest))
  ELSE IF Head(rest) = ".." THEN LexJoin(dirname(cur), Tail(rest))
  ELSE LexJoin(Append(cur, Head(rest)), Tail(rest))

(***************************************************************************)
(* Path resolution as the kernel does it: component by component from the  *)
(* root, following every symbolic link met on the way.  `found` says the   *)
(* path names an existing entry; otherwise `last` says only its final      *)
(* component is missing, and `path` is where that component would be.      *)
(***************************************************************************)
RECURSIVE Walk(_, _, _, _)
Walk(f, cur, rest, fuel) ==
  IF rest = << >> THEN [found |-> TRUE, last |-> FALSE, path |-> cur]
  ELSE IF Head(rest) = "." THEN Walk(f, cur, Tail(rest), fuel)
  ELSE IF Head(rest) = ".." THEN Walk(f, dirname(cur), Tail(rest), fuel)
  ELSE LET cand == Append(cur, Head(rest)) IN
    IF f[cur].kind # "dir"
      THEN [found |-> FALSE, last |-> FALSE, path |-> LexJoin(cand, Tail(rest))]
    ELSE IF cand \notin DOMAIN f
      THEN [found |-> FALSE, last |-> Tail(rest) = << >>,
            path |-> LexJoin(cand, Tail(rest))]
    ELSE IF f[cand].kind = "link"
      THEN IF fuel = 0
             THEN [found |-> FALSE, last |-> FALSE, path |-> cand]
             ELSE Walk(f, cur, f[cand].data \o Tail(rest), fuel - 1)
    ELSE Walk(f, cand, Tail(rest), fuel)

Resolve(f, p) == Walk(f, << >>, p, MaxSymlinks)

\* Where the entry named p itself lives (lstat): the parent resolved, the
\* final component not followed.
Locate(f, p) ==
  LET d == Resolve(f, dirname(p))
  IN  [ok |-> d.found /\ f[d.path].kind = "dir",
       path |-> Append(d.path, basename(p))]

os_path_exists(f, p) == Resolve(f, p).found
os_path_islink(f, p) ==
  LET l == Locate(f, p)
  IN  l.ok /\ l.path \in DOMAIN f /\ f[l.path].kind = "link"
os_path_isdir(f, p) ==
  LET r == Resolve(f, p) IN r.found /\ f[r.path].kind = "dir"

(***************************************************************************)
(* Filesystem operations.  Each yields [err, fs]: whether it raised, and   *)
(* the filesystem it leaves.                                               *)
(***************************************************************************)
Writable(d) == d # ROOT_DIR \/ rootWritable
Without(f, gone) == [q \in DOMAIN f \ gone |-> f[q]]
With(f, p, e) == [q \in DOMAIN f \cup {p} |-> IF q = p THEN e ELSE f[q]]
Below(f, p) == {q \in DOMAIN f : IsPrefix(p, q) /\ q # p}
Raise(f) == [err |-> TRUE, fs |-> f]
Ok(f) == [err |-> FALSE, fs |-> f]

\* os.unlink / os.remove: removes a link or a file, never a directory.
os_unlink(f, p) ==
  LET l == Locate(f, p) IN
  IF ~l.ok \/ l.path \notin DOMAIN f THEN Raise(f)
  ELSE IF f[l.path].kind = "dir" THEN Raise(f)
  ELSE IF ~Writable(dirname(l.path)) THEN Raise(f)
  ELSE Ok(Without(f, {l.path}))

os_remove(f, p) == os_unlink(f, p)

\* shutil.rmtree: refuses a symbolic link and a non-directory; deletes the
\* children first and the directory itself last.
\* (A variant that follows a symbolic link to the directory it names.)
shutil_rmtree_following_links(f, p) ==
  LET r == Resolve(f, p) IN
  IF ~r.found \/ f[r.path].kind # "dir" THEN Raise(f)
  ELSE Ok(Without(f, Below(f, r.path) \cup {r.path}))

shutil_rmtree(f, p) ==
  LET l == Locate(f, p) IN
  IF ~l.ok \/ l.path \notin DOMAIN f THEN Raise(f)
  ELSE IF f[l.path].kind # "dir" THEN Raise(f)
  ELSE IF ~Writable(dirname(l.path)) THEN Raise(Without(f, Below(f, l.path)))
  ELSE Ok(Without(f, Below(f, l.path) \cup {l.path}))

os_symlink(f, target, p) ==
  LET l == Locate(f, p) IN
  IF ~l.ok \/ l.path \in DOMAIN f THEN Raise(f)
  ELSE IF ~Writable(dirname(l.path)) THEN Raise(f)
  ELSE Ok(With(f, l.path, Link(target)))

os_mkdir(f, p) ==
  LET l == Locate(f, p) IN
  IF ~l.ok \/ l.path \in DOMAIN f THEN Raise(f)
  ELSE IF ~Writable(dirname(l.path)) THEN Raise(f)
  ELSE Ok(With(f, l.path, Dir))

\* os.makedirs: makes the missing ancestors, then the directory itself.
RECURSIVE os_makedirs(_, _)
os_makedirs(f, p) ==
  IF p # << >> /\ dirname(p) # << >> /\ ~os_path_exists(f, dirname(p))
    THEN LET h == os_makedirs(f, dirname(p))
         IN  IF h.err THEN h ELSE os_mkdir(h.fs, p)
    ELSE os_mkdir(f, p)

\* (A variant that opens for appending: the text goes after what is there.)
open_append(f, p, text) ==
  LET r == Resolve(f, p) IN
  IF r.found
    THEN IF f[r.path].kind = "file"
           THEN Ok(With(f, r.path, File(f[r.path].data \o text)))
           ELSE Raise(f)
  ELSE IF r.last /\ Writable(dirname(r.path)) THEN Ok(With(f, r.path, File(text)))
  ELSE Raise(f)

\* open(p, "w") and write: follows links, creates or truncates the file.
open_write(f, p, text) ==
  LET r == Resolve(f, p) IN
  IF r.found
    THEN IF f[r.path].kind = "file" THEN Ok(With(f, r.path, File(text)))
         ELSE Raise(f)
  ELSE IF r.last /\ Writable(dirname(r.path)) THEN Ok(With(f, r.path, File(text)))
  ELSE Raise(f)

(***************************************************************************)
(* create_symlink (deploy_ai.py:29-42).                                    *)
(***************************************************************************)
\* (A variant that tests os.path.exists alone, so misses a dangling link.)
RemoveExisting_unless_dangling(f, link_name) ==
  IF os_path_exists(f, link_name)
    THEN IF os_path_islink(f, link_name) THEN os_unlink(f, link_name)
         ELSE IF os_path_isdir(f, link_name) THEN shutil_rmtree(f, link_name)
         ELSE os_remove(f, link_name)
    ELSE Ok(f)

\* deploy_ai.py:31-37
RemoveExisting(f, link_name) ==
  IF os_path_exists(f, link_name) \/ os_path_islink(f, link_name)
    THEN IF os_path_islink(f, link_name) THEN os_unlink(f, link_name)
         ELSE IF os_path_isdir(f, link_name) THEN shutil_rmtree(f, link_name)
         ELSE os_remove(f, link_name)
    ELSE Ok(f)

create_symlink(f, source, link_name) ==
  LET cleared == RemoveExisting(f, link_name)
      relative_source == relpath(source, dirname(link_name))
      linked == os_symlink(cleared.fs, relative_source, link_name)
  IN  IF cleared.err THEN [err |-> TRUE, fs |-> cleared.fs, printed |-> << >>]
      ELSE [err |-> linked.err, fs |-> linked.fs,
            printed |-> IF linked.err THEN << >>
                        ELSE << <<"Linked">> \o link_name \o <<"->">>
                                   \o relative_source >>]

(***************************************************************************)
(* Texts.  A Python string literal is decoded as the interpreter decodes   *)
(* it: a backslash before a quote or a backslash yields that character     *)
(* alone, backslash-n a line break, any other backslash is kept.           *)
(***************************************************************************)
RECURSIVE PyLiteral(_)
PyLiteral(src) ==
  IF src = << >> THEN << >>
  ELSE IF Head(src) = "\\" /\ Len(src) >= 2
    THEN LET c == src[2]
             rest == PyLiteral(SubSeq(src, 3, Len(src)))
         IN  IF c \in {"\"", "'", "\\"} THEN <<c>> \o rest
             ELSE IF c = "n" THEN <<"\n">> \o rest
             ELSE <<"\\", c>> \o rest
  ELSE <<Head(src)>> \o PyLiteral(Tail(src))

\* str.replace(old, new): every non-overlapping occurrence, left to right.
RECURSIVE str_replace(_, _, _)
str_replace(s, old, new) ==
  IF Len(s) < Len(old) THEN s
  ELSE IF SubSeq(s, 1, Len(old)) = old
    THEN new \o str_replace(SubSeq(s, Len(old) + 1, Len(s)), old, new)
  ELSE <<Head(s)>> \o str_replace(Tail(s), old, new)

Whitespace == {" ", "\n"}
RECURSIVE lstrip(_)
lstrip(s) ==
  IF s # << >> /\ Head(s) \in Whitespace THEN lstrip(Tail(s)) ELSE s
RECURSIVE rstrip(_)
rstrip(s) ==
  IF s # << >> /\ s[Len(s)] \in Whitespace
    THEN rstrip(SubSeq(s, 1, Len(s) - 1)) ELSE s
str_strip(s) == lstrip(rstrip(s))

\* The two literals of deploy_ai.py:76, as written between their quotes.
TRIPLE_QUOTE == PyLiteral(<<"\"", "\"", "\"">>)
ESCAPED_TRIPLE_QUOTE == PyLiteral(<<"\\", "\"", "\"", "\"">>)

(***************************************************************************)
(* frontmatter.load (deploy_ai.py:69-70), after python-frontmatter's       *)
(* parse(): strip the text; without a leading "---" line, or without a     *)
(* second one to close the block, the metadata is empty and the content is *)
(* the whole text; otherwise the block goes to yaml.load, whose error is   *)
(* not caught, and only a mapping becomes metadata.                        *)
(***************************************************************************)
BOUNDARY == "---"

\* yaml.load of one line of a metadata block.
YamlLine(line) ==
  CASE line = "description: Deploy the app" ->
         [kind |-> "pair", key |-> "description", val |-> "Deploy the app"]
    [] line = "title: Deploy" ->
         [kind |-> "pair", key |-> "title", val |-> "Deploy"]
    [] line = "description: [unclosed" ->
         [kind |-> "error", key |-> "", val |-> ""]
    [] OTHER ->
         [kind |-> "scalar", key |-> "", val |-> line]

IsBoundaryAt(text, i) ==
  /\ i >= 1 /\ i <= Len(text)
  /\ text[i] = BOUNDARY
  /\ (i = 1 \/ text[i - 1] = "\n")
  /\ (i = Len(text) \/ text[i + 1] = "\n")

Boundaries(text) == {i \in 1..Len(text) : IsBoundaryAt(text, i)}
Min(S) == CHOOSE x \in S : \A y \in S : x <= y

NoLineBreaks(s) == SelectSeq(s, LAMBDA t : t # "\n")

\* yaml.load of a metadata block: [err, isdict, map].
yaml_load(block) ==
  LET lines == NoLineBreaks(block)
      parsed == [i \in 1..Len(lines) |-> YamlLine(lines[i])]
      kinds == {parsed[i].kind : i \in 1..Len(lines)}
      keys == {parsed[i].key : i \in 1..Len(lines)}
  IN  IF "error" \in kinds
        THEN [err |-> TRUE, isdict |-> FALSE, map |-> << >>]
      ELSE IF lines = << >> \/ "scalar" \in kinds
        THEN [err |-> FALSE, isdict |-> FALSE, map |-> << >>]
      ELSE [err |-> FALSE, isdict |-> TRUE,
            map |-> [k \in keys |->
                      parsed[CHOOSE i \in 1..Len(lines) : parsed[i].key = k].val]]

NoMetadata == [k \in {} |-> ""]

\* frontmatter.load: [err, metadata, content].
frontmatter_load(raw) ==
  LET text == str_strip(raw)
      bs == Boundaries(text)
  IN  IF ~IsBoundaryAt(text, 1) \/ Cardinality(bs) < 2
        THEN [err |-> FALSE, metadata |-> NoMetadata, content |-> text]
      ELSE LET close == Min(bs \ {1})
               fm == yaml_load(SubSeq(text, 2, close - 1))
               content == str_strip(SubSeq(text, close + 1, Len(text)))
           IN  IF fm.err
                 THEN [err |-> TRUE, metadata |-> NoMetadata, content |-> << >>]
               ELSE [err |-> FALSE,
                     metadata |-> IF fm.isdict THEN fm.map ELSE NoMetadata,
                     content |-> content]

\* dict.get(key, default)
dict_get(m, key, default) == IF key \in DOMAIN m THEN m[key] ELSE default

(***************************************************************************)
(* File names: os.path.splitext and the pattern of glob.glob.  The names   *)
(* of the model are Stems followed by one of Exts; no stem holds a dot,    *)
(* so no name is hidden from glob.                                         *)
(***************************************************************************)
Stems == {"deploy", "build", "notes", "style", "safety", "README", "inner",
          "deep", "stale", "old"}
Exts == {".md", ".txt", ".toml", ""}

splitext(name) ==
  IF \E s \in Stems, e \in Exts : name = s \o e
    THEN CHOOSE pr \in Stems \X Exts : name = pr[1] \o pr[2]
    ELSE <<name, "">>

\* (A variant for the pattern "*.*": any extension matches.)
fnmatch_any_extension(name, ext) == splitext(name)[2] # ""

fnmatch(name, ext) == splitext(name)[2] = ext

\* glob.glob(os.path.join(dir, "*" + ext)): the entries directly inside dir
\* whose names match, whatever their type; nothing when dir is no directory.
glob(f, dir, ext) ==
  LET d == Resolve(f, dir) IN
  IF ~d.found \/ f[d.path].kind # "dir" THEN {}
  ELSE {Append(dir, basename(q)) :
          q \in {q \in DOMAIN f : dirname(q) = d.path /\ q # d.path
                                  /\ fnmatch(basename(q), ext)}}

\* open(p, "r") and read: [err, text].
open_read(f, p) ==
  LET r == Resolve(f, p) IN
  IF r.found /\ f[r.path].kind = "file"
    THEN [err |-> FALSE, text |-> f[r.path].data]
    ELSE [err |-> TRUE, text |-> << >>]

(***************************************************************************)
(* generate_gemini_config (deploy_ai.py:55-107), one operator per part.    *)
(***************************************************************************)
commands_dir == GEMINI_CONFIG \o <<"commands">>
GEMINI_MD == GEMINI_CONFIG \o <<"GEMINI.md">>

\* deploy_ai.py:59-62: the commands directory is removed if it exists and
\* made anew.
reset_commands_dir(f) ==
  LET gone == IF os_path_exists(f, commands_dir)
                THEN shutil_rmtree(f, commands_dir) ELSE Ok(f)
  IN  IF gone.err THEN gone ELSE os_makedirs(gone.fs, commands_dir)

\* deploy_ai.py:76
escape_prompt(prompt) == str_replace(prompt, TRIPLE_QUOTE, ESCAPED_TRIPLE_QUOTE)

\* deploy_ai.py:72
default_description(name) == "Run the " \o name \o " workflow"

\* (A variant whose closing delimiter follows the prompt on the same line.)
toml_content_closing_inline(description, safe_prompt) ==
  <<"description = ", "\"", description, "\"", "\n", "\n",
    "prompt = ", "\"", "\"", "\"", "\n">>
  \o safe_prompt \o <<"\"", "\"", "\"", "\n">>

\* deploy_ai.py:78
toml_content(description, safe_prompt) ==
  <<"description = ", "\"", description, "\"", "\n", "\n",
    "prompt = ", "\"", "\"", "\"", "\n">>
  \o safe_prompt \o <<"\n", "\"", "\"", "\"", "\n">>

toml_path(md_file) ==
  commands_dir \o <<splitext(basename(md_file))[1] \o ".toml">>

\* deploy_ai.py:66-83: one turn of the loop over the workflow documents.
generate_command(f, md_file) ==
  LET name == splitext(basename(md_file))[1]
      rd == open_read(f, md_file)
      post == frontmatter_load(rd.text)
      description == dict_get(post.metadata, "description",
                              default_description(name))
      safe_prompt == escape_prompt(post.content)
  IN  IF rd.err \/ post.err THEN Raise(f)
      ELSE open_write(f, toml_path(md_file),
                      toml_content(description, safe_prompt))

RECURSIVE JoinSlash(_)
JoinSlash(p) ==
  IF Len(p) <= 1 THEN p ELSE <<Head(p), "/">> \o JoinSlash(Tail(p))

\* The grave accent, which a TLA+ string cannot hold, is this token.
BACKTICK == "[grave accent]"

\* deploy_ai.py:87-91, 97
GEMINI_MD_HEADER ==
  <<"# Gemini Agent Configuration", "\n", "\n", "## Shared Rules", "\n",
    "The following rules are strictly enforced. The agent usually reads these from ",
    BACKTICK, ".ai/rules/", BACKTICK, ".", "\n", "\n", "You must respect the rules defined in:", "\n">>

\* deploy_ai.py:99-100
rule_line(rule_file) ==
  <<"- ", BACKTICK, ".gemini/">> \o JoinSlash(relpath(rule_file, GEMINI_CONFIG))
  \o <<BACKTICK, "\n">>

\* The listing of a directory comes in the directory's own order: the
\* names of `order` first and as it has them, any other name after them.
Rank(p, order) ==
  IF basename(p) \in Range(order)
    THEN CHOOSE i \in DOMAIN order : order[i] = basename(p)
    ELSE Len(order) + 1
RECURSIVE InOrder(_, _)
InOrder(files, order) ==
  IF files = {} THEN << >>
  ELSE LET first == CHOOSE p \in files :
                      \A q \in files : Rank(p, order) <= Rank(q, order)
       IN  <<first>> \o InOrder(files \ {first}, order)

RECURSIVE rule_lines(_)
rule_lines(files) ==
  IF files = << >> THEN << >>
  ELSE rule_line(Head(files)) \o rule_lines(Tail(files))

\* deploy_ai.py:97-100
gemini_md_content(f, order) ==
  GEMINI_MD_HEADER \o rule_lines(InOrder(glob(f, RULES_DIR, ".md"), order))

(***************************************************************************)
(* The steps of the program.  A step that raises leaves what it had done   *)
(* and ends the run (pc = "aborted"); nothing is caught anywhere.          *)
(***************************************************************************)
Record(f, paths) == [p \in paths \cap DOMAIN f |-> f[p]]

\* (A variant that carries on after an error, as under a bare try/except.)
Finish_ignoring_errors(r, next, before, after, wrote) ==
  /\ fs' = r.fs
  /\ pc' = next
  /\ out' = out \o before \o (IF r.err THEN << >> ELSE after)
  /\ written' = IF r.err THEN written ELSE Record(r.fs, wrote) @@ written

Finish(r, next, before, after, wrote) ==
  /\ fs' = r.fs
  /\ pc' = IF r.err THEN "aborted" ELSE next
  /\ out' = out \o before \o (IF r.err THEN << >> ELSE after)
  /\ written' = IF r.err THEN written ELSE Record(r.fs, wrote) @@ written

LinkStep(source, link_name, next, before) ==
  LET r == create_symlink(fs, source, link_name)
  IN  /\ Finish(r, next, before, r.printed, {Locate(fs, link_name).path})
      /\ UNCHANGED <<rootWritable, run, snap, todo, ruleOrder, call, fs0>>

\* setup_internal_symlinks (deploy_ai.py:44-53)
InternalRules ==
  /\ pc = "internal_rules"
  /\ LinkStep(RULES_DIR, ANTIGRAVITY_CONFIG \o <<"rules">>, "internal_workflows",
              << <<"Setting up internal symlinks...">> >>)

InternalWorkflows ==
  /\ pc = "internal_workflows"
  /\ LinkStep(WORKFLOWS_DIR, ANTIGRAVITY_CONFIG \o <<"workflows">>,
              "internal_commands", << >>)

InternalCommands ==
  /\ pc = "internal_commands"
  /\ LinkStep(WORKFLOWS_DIR, CLAUDE_CONFIG \o <<"commands">>, "generate", << >>)

\* generate_gemini_config, deploy_ai.py:57-65: up to the listing of the
\* workflow documents.
GenerateBegin ==
  /\ pc = "generate"
  /\ LET r == reset_commands_dir(fs)
     IN  /\ Finish(r, "generate_commands",
                   << <<"Generating Gemini configuration...">> >>, << >>,
                   {Resolve(r.fs, commands_dir).path})
         /\ todo' = IF r.err THEN {} ELSE glob(r.fs, WORKFLOWS_DIR, ".md")
  /\ UNCHANGED <<rootWritable, run, snap, ruleOrder, call, fs0>>

\* deploy_ai.py:65-83: one workflow document, in any order.
GenerateCommand ==
  /\ pc = "generate_commands"
  /\ \E md_file \in todo :
       LET r == generate_command(fs, md_file)
       IN  /\ Finish(r, "generate_commands", << >>,
                     << <<"Generated">> \o toml_path(md_file) >>,
                     {Resolve(r.fs, toml_path(md_file)).path})
           /\ todo' = todo \ {md_file}
  /\ UNCHANGED <<rootWritable, run, snap, ruleOrder, call, fs0>>

\* deploy_ai.py:85-104: the index document, once the loop is over.
GenerateIndex ==
  /\ pc = "generate_commands"
  /\ todo = {}
  /\ LET r == open_write(fs, GEMINI_MD, gemini_md_content(fs, ruleOrder))
     IN  Finish(r, "generate_link", << >>, << <<"Generated GEMINI.md">> >>,
                {Resolve(r.fs, GEMINI_MD).path})
  /\ UNCHANGED <<rootWritable, run, snap, todo, ruleOrder, call, fs0>>

\* deploy_ai.py:107
GenerateLink ==
  /\ pc = "generate_link"
  /\ LinkStep(RULES_DIR, GEMINI_CONFIG \o <<"rules">>,
              IF call.entry = "main" THEN "root_agent" ELSE "done", << >>)

\* setup_root_symlinks (deploy_ai.py:110-115)
RootAgent ==
  /\ pc = "root_agent"
  /\ LinkStep(ANTIGRAVITY_CONFIG, TARGET_AGENT, "root_claude",
              << <<"Setting up root symlinks...">> >>)

RootClaude ==
  /\ pc = "root_claude"
  /\ LinkStep(CLAUDE_CONFIG, TARGET_CLAUDE, "root_gemini", << >>)

RootGemini ==
  /\ pc = "root_gemini"
  /\ LinkStep(GEMINI_CONFIG, TARGET_GEMINI, "complete", << >>)

\* main, deploy_ai.py:121: the last line of a run.
Complete ==
  /\ pc = "complete"
  /\ pc' = "done"
  /\ out' = Append(out, <<"Deployment complete.">>)
  /\ run' = run + 1
  /\ snap' = IF run = 0 THEN fs ELSE snap
  /\ UNCHANGED <<fs, rootWritable, todo, ruleOrder, call, fs0, written>>

\* The script is run once more on what the first run left.
Rerun ==
  /\ pc = "done"
  /\ call.entry = "main"
  /\ run = 1
  /\ pc' = "internal_rules"
  /\ out' = << >>
  /\ written' = << >>
  /\ UNCHANGED <<fs, rootWritable, run, snap, todo, ruleOrder, call, fs0>>

\* create_symlink called on its own, and once more with the same arguments.
LinkCall ==
  /\ pc = "call"
  /\ LET r == create_symlink(fs, call.source, call.link_name)
     IN  /\ Finish(r, IF run = 0 THEN "call" ELSE "done", << >>, r.printed,
                   {Locate(fs, call.link_name).path})
         /\ snap' = IF run = 0 THEN r.fs ELSE snap
  /\ run' = run + 1
  /\ UNCHANGED <<rootWritable, todo, ruleOrder, call, fs0>>

(***************************************************************************)
(* Initial filesystems.                                                    *)
(***************************************************************************)
Tree(S) == [p \in {x[1] : x \in S} |-> (CHOOSE x \in S : x[1] = p)[2]]

\* Workflow documents: an optional metadata block, then a body.
BodyChars == {"a", "\"", "\n"}
Bodies == UNION {[1..n -> BodyChars] : n \in 0..MaxBody}
Block(lines) == <<BOUNDARY, "\n">> \o lines \o <<BOUNDARY, "\n">>
Headers ==
  { << >>,
    Block(<<"description: Deploy the app", "\n">>),
    Block(<<"title: Deploy", "\n">>),
    Block(<<"title: Deploy", "\n", "description: Deploy the app", "\n">>),
    Block(<<"description: [unclosed", "\n">>),
    Block(<<"just some text", "\n">>),
    Block(<< >>),
    <<BOUNDARY, "\n", "description: Deploy the app", "\n">> }
DocTexts == {h \o b : h \in Headers, b \in Bodies}

GoodDoc == Block(<<"description: Deploy the app", "\n">>) \o <<"a", "\n">>
PlainDoc == <<"a", "\"", "\n">>
BrokenDoc == Block(<<"description: [unclosed", "\n">>) \o <<"a", "\n">>

RuleNames == {"style.md", "safety.md"}
RuleOrders ==
  {o \in [1..Cardinality(RuleNames) -> RuleNames] :
     \A i, j \in DOMAIN o : i # j => o[i] # o[j]}

\* The canonical tree: the workflow and rule documents, a non-Markdown
\* file and a subdirectory with a Markdown file beside them, and the three
\* configuration directories.
SourceTree(deploy, builds, rules) ==
  Tree({<<ROOT_DIR, Dir>>, <<AI_DIR, Dir>>, <<AI_DIR \o <<"config">>, Dir>>,
        <<ANTIGRAVITY_CONFIG, Dir>>, <<CLAUDE_CONFIG, Dir>>,
        <<GEMINI_CONFIG, Dir>>,
        <<WORKFLOWS_DIR, Dir>>,
        <<WORKFLOWS_DIR \o <<"deploy.md">>, File(deploy)>>,
        <<WORKFLOWS_DIR \o <<"notes.txt">>, File(<<"notes">>)>>,
        <<WORKFLOWS_DIR \o <<"sub">>, Dir>>,
        <<WORKFLOWS_DIR \o <<"sub", "inner.md">>, File(PlainDoc)>>,
        <<RULES_DIR, Dir>>,
        <<RULES_DIR \o <<"README.txt">>, File(<<"readme">>)>>,
        <<RULES_DIR \o <<"sub">>, Dir>>,
        <<RULES_DIR \o <<"sub", "deep.md">>, File(<<"rule">>)>>}
       \cup {<<WORKFLOWS_DIR \o <<"build.md">>, File(b)>> : b \in builds}
       \cup {<<Append(RULES_DIR, r), File(<<"rule">>)>> : r \in rules})

\* What may stand at a place: nothing, a file, a directory with a file in
\* it, a symbolic link.
Absent == {}
AFile == {<< << >>, File(<<"old">>) >>}
ADir == {<< << >>, Dir >>, << <<"stale.toml">>, File(<<"old">>) >>}
ALink(target) == {<< << >>, Link(target) >>}

\* A deviation puts `put` at `path`, in place of what the base has there.
Apply(f, d) ==
  LET cleared == Without(f, Below(f, d.path) \cup {d.path})
      new == {<<d.path \o x[1], x[2]>> : x \in d.put}
  IN  Tree(new) @@ cleared

RECURSIVE ApplyAll(_, _)
ApplyAll(f, D) ==
  IF D = {} THEN f
  ELSE LET d == CHOOSE x \in D : TRUE IN ApplyAll(Apply(f, d), D \ {d})

InternalTargets ==
  {ANTIGRAVITY_CONFIG \o <<"rules">>, ANTIGRAVITY_CONFIG \o <<"workflows">>,
   CLAUDE_CONFIG \o <<"commands">>, GEMINI_CONFIG \o <<"rules">>}
RootTargets == {TARGET_AGENT, TARGET_CLAUDE, TARGET_GEMINI}
Targets == InternalTargets \cup RootTargets

TargetStates(t) ==
  {Absent, AFile, ADir, ALink(<<"missing">>),
   ALink(relpath(WORKFLOWS_DIR, dirname(t))),
   ALink(relpath(RULES_DIR, dirname(t)))}
CommandsStates ==
  {Absent, AFile, ADir, ALink(<<"missing">>),
   ALink(relpath(WORKFLOWS_DIR, GEMINI_CONFIG))}

FreshFS == SourceTree(GoodDoc, {PlainDoc}, RuleNames)

\* The tree as an earlier deployment left it: every link in place, the
\* commands directory and the index document holding earlier output.
LinkedFS ==
  ApplyAll(FreshFS,
    {[path |-> ANTIGRAVITY_CONFIG \o <<"rules">>,
      put |-> ALink(relpath(RULES_DIR, ANTIGRAVITY_CONFIG))],
     [path |-> ANTIGRAVITY_CONFIG \o <<"workflows">>,
      put |-> ALink(relpath(WORKFLOWS_DIR, ANTIGRAVITY_CONFIG))],
     [path |-> CLAUDE_CONFIG \o <<"commands">>,
      put |-> ALink(relpath(WORKFLOWS_DIR, CLAUDE_CONFIG))],
     [path |-> GEMINI_CONFIG \o <<"rules">>,
      put |-> ALink(relpath(RULES_DIR, GEMINI_CONFIG))],
     [path |-> commands_dir, put |-> ADir],
     [path |-> GEMINI_MD, put |-> AFile],
     [path |-> TARGET_AGENT, put |-> ALink(relpath(ANTIGRAVITY_CONFIG, ROOT_DIR))],
     [path |-> TARGET_CLAUDE, put |-> ALink(relpath(CLAUDE_CONFIG, ROOT_DIR))],
     [path |-> TARGET_GEMINI, put |-> ALink(relpath(GEMINI_CONFIG, ROOT_DIR))]})

Deviations ==
  UNION {{[path |-> t, put |-> s] : s \in TargetStates(t)} : t \in Targets}
  \cup {[path |-> commands_dir, put |-> s] : s \in CommandsStates}
  \cup {[path |-> GEMINI_MD, put |-> s] : s \in {Absent, AFile, ADir}}
  \cup {[path |-> c, put |-> Absent] :
          c \in {ANTIGRAVITY_CONFIG, CLAUDE_CONFIG, GEMINI_CONFIG}}
  \cup {[path |-> WORKFLOWS_DIR \o <<"build.md">>, put |-> s] :
          s \in {Absent, {<< << >>, File(BrokenDoc) >>}}}

Apart(D) ==
  \A d, e \in D : d # e => ~IsPrefix(d.path, e.path)

RECURSIVE DeviationSets(_)
DeviationSets(k) ==
  IF k = 0 THEN {{}}
  ELSE LET smaller == DeviationSets(k - 1)
       IN  smaller \cup {D \cup {d} : D \in smaller, d \in Deviations}

NoCall == [entry |-> "main", source |-> << >>, link_name |-> << >>]

Start(f, position, c) ==
  /\ fs = f
  /\ fs0 = f
  /\ pc = position
  /\ call = c
  /\ run = 0
  /\ snap = << >>
  /\ out = << >>
  /\ todo = {}
  /\ written = << >>

(***************************************************************************)
(* main() (deploy_ai.py:117-124), run on a tree that departs from a fresh  *)
(* or an already deployed one in at most MaxDeviations places, one of them *)
(* possibly a read-only root; and run a second time after it completed.    *)
(***************************************************************************)
Init ==
  /\ \E base \in {FreshFS, LinkedFS}, D \in DeviationSets(MaxDeviations) :
       /\ Apart(D)
       /\ rootWritable \in {w \in BOOLEAN : w \/ Cardinality(D) < MaxDeviations}
       /\ Start(ApplyAll(base, D), "internal_rules", NoCall)
  /\ ruleOrder \in RuleOrders

Next ==
  \/ InternalRules
  \/ InternalWorkflows
  \/ InternalCommands
  \/ GenerateBegin
  \/ GenerateCommand
  \/ GenerateIndex
  \/ GenerateLink
  \/ RootAgent
  \/ RootClaude
  \/ RootGemini
  \/ Complete
  \/ Rerun

Spec == Init /\ [][Next]_vars

(***************************************************************************)
(* generate_gemini_config() on its own, over the texts of deploy.md, a     *)
(* second workflow document, the rule documents present and what stands at *)
(* the commands directory.                                                 *)
(***************************************************************************)
DefaultOrder == CHOOSE o \in RuleOrders : TRUE
GenCase(builds, rules, commands, order) ==
  [builds |-> builds, rules |-> rules, commands |-> commands, order |-> order]
\* The surroundings of deploy.md: a default, and each departure from it.
GenCases ==
  {GenCase(b, RuleNames, Absent, DefaultOrder) : b \in {{}, {PlainDoc}, {BrokenDoc}}}
  \cup {GenCase({PlainDoc}, r, Absent, DefaultOrder) : r \in SUBSET RuleNames}
  \cup {GenCase({PlainDoc}, RuleNames, c, DefaultOrder) : c \in CommandsStates}
  \cup {GenCase({PlainDoc}, RuleNames, Absent, o) : o \in RuleOrders}

GenInit ==
  /\ \E text \in DocTexts, case \in GenCases :
       /\ Start(Apply(SourceTree(text, case.builds, case.rules),
                      [path |-> commands_dir, put |-> case.commands]),
                "generate",
                [entry |-> "generate_gemini_config", source |-> << >>,
                 link_name |-> << >>])
       /\ ruleOrder = case.order
  /\ rootWritable = TRUE

GenNext ==
  \/ GenerateBegin
  \/ GenerateCommand
  \/ GenerateIndex
  \/ GenerateLink

SpecGen == GenInit /\ [][GenNext]_vars

(***************************************************************************)
(* create_symlink(source, link_name) on its own, twice, on a deployed tree *)
(* with each kind of entry at the link's place.                            *)
(***************************************************************************)
LinkSources ==
  {RULES_DIR, WORKFLOWS_DIR, ANTIGRAVITY_CONFIG, CLAUDE_CONFIG, GEMINI_CONFIG,
   AI_DIR \o <<"missing">>}
LinkTargets == Targets \cup {TARGET_AGENT \o <<"rules">>}

LinkInit ==
  /\ \E s \in LinkSources, t \in LinkTargets :
       \E prior \in TargetStates(t) :
         Start(Apply(LinkedFS, [path |-> Locate(LinkedFS, t).path, put |-> prior]),
               "call",
               [entry |-> "create_symlink", source |-> s, link_name |-> t])
  /\ rootWritable = TRUE
  /\ ruleOrder \in RuleOrders

LinkNext == LinkCall

SpecLink == LinkInit /\ [][LinkNext]_vars

(***************************************************************************)
(* Vocabulary of the properties.                                           *)
(***************************************************************************)
Contains(s, sub) ==
  \E i \in 1..(Len(s) + 1 - Len(sub)) : SubSeq(s, i, i + Len(sub) - 1) = sub
Quotes3 == <<"\"", "\"", "\"">>

IsMarkdown(name) == \E stem \in Stems : name = stem \o ".md"
StemOf(name) == CHOOSE stem \in Stems : name = stem \o ".md"

\* The Markdown entries directly inside a directory of the initial tree.
DocsIn(dir) ==
  {p \in DOMAIN fs0 : p # << >> /\ dirname(p) = dir /\ IsMarkdown(basename(p))}
TomlOf(doc) == commands_dir \o <<StemOf(basename(doc)) \o ".toml">>
Parsed(doc) == frontmatter_load(fs0[doc].data)
Generated(doc) == TomlOf(doc) \in DOMAIN written

\* In a generated document: where the opening delimiter of the prompt block
\* ends, and where an unescaped triple quote begins.
OpeningEnd(toml) == (CHOOSE i \in 1..Len(toml) : toml[i] = "prompt = ") + 3
UnescapedTriples(toml) ==
  {j \in (OpeningEnd(toml) + 1)..(Len(toml) - 2) :
     SubSeq(toml, j, j + 2) = Quotes3 /\ toml[j - 1] # "\\"}
\* The text between the opening delimiter and the delimiter that ends the file.
Between(toml) == SubSeq(toml, OpeningEnd(toml) + 1, Len(toml) - 4)
\* That text without the line break after the opening delimiter and the one
\* before the closing delimiter: the body as written.
WrittenBody(toml) == SubSeq(toml, OpeningEnd(toml) + 2, Len(toml) - 5)

\* C1: for every workflow document whose body contains three double quotes
\* in a row, the body written into the prompt block differs from the raw
\* body, and the only unescaped triple double quote after the opening
\* delimiter is the closing delimiter at the end of the file.
C1_TripleQuotesEscaped ==
  \A doc \in DocsIn(WORKFLOWS_DIR) :
    (Generated(doc) /\ Contains(Parsed(doc).content, Quotes3)) =>
      LET toml == written[TomlOf(doc)].data
      IN  /\ WrittenBody(toml) # Parsed(doc).content
          /\ UnescapedTriples(toml) = {Len(toml) - 3}

(***************************************************************************)
(* create_symlink on its own (SpecLink).                                   *)
(***************************************************************************)
\* Where the link stored at link_name leads, resolved from the directory
\* that holds it, against where the source path leads.
LinkPlace == Locate(fs, call.link_name).path
LeadsToSource ==
  LET stored == Resolve(fs, dirname(LinkPlace) \o fs[LinkPlace].data)
      wanted == Resolve(fs, call.source)
  IN  stored.found = wanted.found /\ stored.path = wanted.path

\* C2: for every source and every link_name whose parent directory exists,
\* whatever stood at link_name, the call succeeds and leaves a symbolic link
\* there whose stored relative path, resolved from the directory holding
\* it, designates the source path.
C2_LinkDesignatesSource ==
  (call.entry = "create_symlink" /\ run >= 1) =>
    /\ pc # "aborted"
    /\ os_path_islink(fs, call.link_name)
    /\ LeadsToSource

\* The same when no symbolic link lies on the way to link_name's directory.
LinkDesignatesSourceBelowRealParent ==
  (call.entry = "create_symlink" /\ run >= 1
     /\ Resolve(fs0, dirname(call.link_name)).path = dirname(call.link_name)) =>
    /\ pc # "aborted"
    /\ os_path_islink(fs, call.link_name)
    /\ LeadsToSource

Malformed(text) ==
  LET t == str_strip(text)
      bs == Boundaries(t)
  IN  /\ IsBoundaryAt(t, 1)
      /\ \/ Cardinality(bs) < 2
         \/ LET block == NoLineBreaks(SubSeq(t, 2, Min(bs \ {1}) - 1))
                y == yaml_load(block)
            IN  block # << >> /\ (y.err \/ ~y.isdict)

CommandsReset == commands_dir \in DOMAIN written

\* C5: a malformed metadata block does not make generation fail: the
\* document gets the default description naming it, and generation goes on
\* with the other workflow documents, the index document and the rules link.
C5_MalformedMetadataTolerated ==
  (CommandsReset /\ \E doc \in DocsIn(WORKFLOWS_DIR) : Malformed(fs0[doc].data)) =>
    /\ pc # "aborted"
    /\ \A doc \in DocsIn(WORKFLOWS_DIR) :
         (Generated(doc) /\ Malformed(fs0[doc].data)) =>
           written[TomlOf(doc)].data[3] =
             "Run the " \o StemOf(basename(doc)) \o " workflow"
    /\ pc = "done" =>
         /\ \A doc \in DocsIn(WORKFLOWS_DIR) : Generated(doc)
         /\ GEMINI_MD \in DOMAIN written
         /\ GEMINI_CONFIG \o <<"rules">> \in DOMAIN written

\* The index document: its header, then its lines.
RECURSIVE SplitLines(_)
SplitLines(s) ==
  IF s = << >> THEN << >>
  ELSE LET ends == {i \in 1..Len(s) : s[i] = "\n"}
       IN  IF ends = {} THEN <<s>>
           ELSE <<SubSeq(s, 1, Min(ends) - 1)>>
                \o SplitLines(SubSeq(s, Min(ends) + 1, Len(s)))

IndexLines ==
  LET text == fs[GEMINI_MD].data
  IN  SplitLines(SubSeq(text, Len(GEMINI_MD_HEADER) + 1, Len(text)))
ExpectedLine(name) ==
  <<"- ", BACKTICK, ".gemini/", "..", "/", "..", "/", "rules", "/", name, BACKTICK>>
RuleDocs ==
  {basename(p) : p \in {q \in DOMAIN fs : q # << >> /\ dirname(q) = RULES_DIR
                                          /\ IsMarkdown(basename(q))}}

\* C6: the index document holds, after its fixed header, exactly one list
\* line for each *.md file directly inside the rules directory, carrying the
\* file's path relative to the Gemini configuration directory after
\* ".gemini/", and no other line: none for a file that is not Markdown, none
\* for a file of a subdirectory, none twice.
C6_IndexListsRules ==
  GEMINI_MD \in DOMAIN written =>
    /\ SubSeq(fs[GEMINI_MD].data, 1, Len(GEMINI_MD_HEADER)) = GEMINI_MD_HEADER
    /\ Len(IndexLines) = Cardinality(RuleDocs)
    /\ \A name \in RuleDocs :
         Cardinality({i \in 1..Len(IndexLines) :
                        IndexLines[i] = ExpectedLine(name)}) = 1

C6_Witness ==
  /\ call.entry = "generate_gemini_config"
  /\ pc = "done"
  /\ GEMINI_MD \in DOMAIN written
  /\ Cardinality(RuleDocs) = 2
  /\ Len(IndexLines) = 2

HasDescription(doc) == "description" \in DOMAIN Parsed(doc).metadata
DescriptionLine(doc) ==
  <<"description = ", "\"", Parsed(doc).metadata["description"], "\"", "\n">>

CommandsEntries == {basename(p) : p \in {q \in DOMAIN fs : q # << >> /\ dirname(q) = commands_dir}}

\* C8: whatever stood at the commands directory before the call (nothing, a
\* directory with files of workflows that no longer exist, a plain file, a
\* symbolic link), the call completes and leaves a real directory there
\* holding one <name>.toml for each <name>.md of the workflows directory and
\* nothing else.  (Documents whose metadata yaml.load rejects are C5's.)
C8_CommandsRebuilt ==
  (call.entry = "generate_gemini_config" /\ pc \in {"done", "aborted"}
     /\ \A doc \in DocsIn(WORKFLOWS_DIR) : ~Parsed(doc).err) =>
    /\ pc = "done"
    /\ commands_dir \in DOMAIN fs
    /\ fs[commands_dir].kind = "dir"
    /\ CommandsEntries =
         {StemOf(basename(doc)) \o ".toml" : doc \in DocsIn(WORKFLOWS_DIR)}
    /\ \A doc \in DocsIn(WORKFLOWS_DIR) : fs[TomlOf(doc)].kind = "file"

\* The same when nothing or a real directory stood there.
CommandsRebuiltOverDirectory ==
  (call.entry = "generate_gemini_config" /\ pc \in {"done", "aborted"}
     /\ (\A doc \in DocsIn(WORKFLOWS_DIR) : ~Parsed(doc).err)
     /\ (commands_dir \in DOMAIN fs0 => fs0[commands_dir].kind = "dir")) =>
    /\ pc = "done"
    /\ fs[commands_dir].kind = "dir"
    /\ CommandsEntries =
         {StemOf(basename(doc)) \o ".toml" : doc \in DocsIn(WORKFLOWS_DIR)}

(***************************************************************************)
(* main (Spec).                                                            *)
(***************************************************************************)
\* C4: when a run of main() completes, a second run on what it left also
\* completes, and leaves the filesystem exactly as the first run left it.
C4_MainIdempotent ==
  (call.entry = "main" /\ run >= 1) =>
    /\ pc # "aborted"
    /\ (run = 2 /\ pc = "done") => fs = snap

C4_Witness ==
  /\ call.entry = "main"
  /\ run = 2
  /\ pc = "done"
  /\ fs = snap
  /\ fs # fs0
  /\ TARGET_GEMINI \in DOMAIN fs0
  /\ fs0[TARGET_GEMINI].kind = "dir"

\* What the steps write, in the order of the program.
Milestones ==
  <<ANTIGRAVITY_CONFIG \o <<"rules">>, ANTIGRAVITY_CONFIG \o <<"workflows">>,
    CLAUDE_CONFIG \o <<"commands">>, commands_dir, GEMINI_MD,
    GEMINI_CONFIG \o <<"rules">>, TARGET_AGENT, TARGET_CLAUDE, TARGET_GEMINI>>
Completed == <<"Deployment complete.">> \in Range(out)

\* C9: the steps run in the fixed order internal aliasing, generation, root
\* aliasing, each after the one before it has finished; when an operation
\* fails the run stops there: nothing more is executed, "Deployment
\* complete." is not printed, and all that was written before the failure
\* stays as written.
C9_OrderedAndAbortsInPlace ==
  call.entry = "main" =>
    /\ \A i, j \in DOMAIN Milestones :
         (i < j /\ Milestones[j] \in DOMAIN written) =>
           Milestones[i] \in DOMAIN written
    /\ \A doc \in DocsIn(WORKFLOWS_DIR) :
         /\ Generated(doc) => commands_dir \in DOMAIN written
         /\ GEMINI_MD \in DOMAIN written => Generated(doc)
    /\ Completed => \A i \in DOMAIN Milestones : Milestones[i] \in DOMAIN written
    /\ \A p \in DOMAIN written : p \in DOMAIN fs /\ fs[p] = written[p]
    /\ pc = "aborted" => ~Completed /\ ~ENABLED Next

C9_Witness ==
  /\ call.entry = "main"
  /\ pc = "aborted"
  /\ run = 0
  /\ ~Completed
  /\ \E doc \in DocsIn(WORKFLOWS_DIR) : Generated(doc)
  /\ CLAUDE_CONFIG \o <<"commands">> \in DOMAIN written
  /\ GEMINI_MD \notin DOMAIN written

Canonical(f) ==
  [p \in {q \in DOMAIN f : IsPrefix(WORKFLOWS_DIR, q) \/ IsPrefix(RULES_DIR, q)}
     |-> f[p]]

\* C10: no run of main(), complete or aborted, whatever stands at the target
\* locations (symbolic links to the workflows or rules directory included),
\* creates, deletes or changes anything inside the canonical workflows and
\* rules directories.
C10_SourcesUntouched ==
  call.entry = "main" => Canonical(fs) = Canonical(fs0)

C10_Witness ==
  /\ call.entry = "main"
  /\ pc = "done"
  /\ \E t \in Targets \cup {commands_dir} :
       /\ t \in DOMAIN fs0
       /\ fs0[t].kind = "link"
       /\ Resolve(fs0, t).found
       /\ Resolve(fs0, t).path \in {WORKFLOWS_DIR, RULES_DIR}
       /\ fs[t] # fs0[t]
  /\ Canonical(fs) = Canonical(fs0)

====
